---- MODULE Spec2Model ----
(***************************************************************************)
(* A model of the SoundFont loader of rustysynth:                          *)
(*   - Generator::read_from_chunk            (generator.rs)                *)
(*   - SoundFont::new                        (soundfont.rs)                *)
(*   - SoundFont::export_preset / from_exported_preset (soundfont.rs)      *)
(* The error values are those of error.rs.                                 *)
(***************************************************************************)
EXTENDS Integers, Sequences, FiniteSets, TLC

VARIABLES
    \* ---- Generator::read_from_chunk ----
    chunk,          \* the bytes the reader still has to offer, as one sequence
    pos,            \* how many of them the reader has handed out
    size,           \* the `size` argument
    count,          \* the local `count`
    generators,     \* the local `generators`
    pcGen,          \* where read_from_chunk is
    resultGen,      \* what read_from_chunk returned
    readsGen,       \* how many reads read_from_chunk issued to the reader
    overflowChecks, \* whether the build traps integer overflow (debug) or wraps
    \* ---- zone resolution of one preset (the parameter block) ----
    generatorList,  \* the preset generator list of the entity, terminator dropped
    bag,            \* the bag table: start offset of each zone, and the end
    entity,         \* the kind of entity resolved: a preset or an instrument
    targetCount,    \* instruments.len() for a preset, sample_headers.len() for an instrument
    zoneIdx,        \* the next zone to resolve
    global,         \* the global zone's generators (empty when there is none)
    regions,        \* the regions produced so far
    regionZone,     \* for each region, the zone it was resolved from
    pcZone,         \* where the resolution is
    resultZone,     \* what the resolution returned
    \* ---- SoundFont::new ----
    pcNew,          \* the statement SoundFont::new is at
    stagePc,        \* inside a sub-block: the read it is at
    readLog,        \* every read issued to the reader so far, with its outcome
    chunk_id,       \* the local `chunk_id`
    form_type,      \* the local `form_type`
    info,           \* the local `info`
    sample_data,    \* the local `sample_data`
    parameters,     \* the local `parameters`
    stages,         \* the sub-block constructors called so far, in order
    resultNew,      \* what SoundFont::new returned
    \* ---- SoundFont::export_preset and SoundFont::from_exported_preset ----
    sf,             \* the bank export_preset is called on (`self`)
    sfAtCall,       \* the bank as it was when export_preset was called
    bank,           \* the `bank` argument
    patch,          \* the `patch` argument
    exported,       \* what export_preset returned, or the value a caller built
    source,         \* where the ExportedPreset given to from_exported_preset is from
    rebuilt,        \* what from_exported_preset returned
    pcExp           \* which of the two calls were made

genVars == <<chunk, pos, size, count, generators, pcGen, resultGen, readsGen, overflowChecks>>

zoneVars == <<entity, generatorList, bag, targetCount, zoneIdx, global, regions, regionZone, pcZone, resultZone>>

newVars == <<pcNew, stagePc, readLog, chunk_id, form_type, info, sample_data, parameters, stages, resultNew>>

expVars == <<sf, sfAtCall, bank, patch, exported, source, rebuilt, pcExp>>

nonGenVars == <<zoneVars, newVars, expVars>>

nonZoneVars == <<genVars, newVars, expVars>>

nonNewVars == <<genVars, zoneVars, expVars>>

nonExpVars == <<genVars, zoneVars, newVars>>

vars == <<genVars, zoneVars, newVars, expVars>>

(***************************************************************************)
(* Bounds of the model.                                                    *)
(***************************************************************************)
\* longest byte stream offered to read_from_chunk
MaxChunkLen == 12
\* largest declared chunk size
MaxSize == 12
\* width of usize in the model (TLC's integers are 32 bits wide; every
\* stream of the model is far shorter than 2^UsizeWidth records, as every
\* real stream is far shorter than 2^64 records)
UsizeWidth == 16

\* longest generator list of one entity
MaxGenList == 4
\* most zones of one entity
MaxZones == 3

ByteValues == {0, 1}

UsizeModulus == 2 ^ UsizeWidth

(***************************************************************************)
(* Results.  Every result is a record with a tag; Pending is the value     *)
(* before the function returned.                                           *)
(***************************************************************************)
Pending == [tag |-> "Pending"]

Panic == [tag |-> "Panic"]

IoError == [tag |-> "IoError"]

InvalidGeneratorList == [tag |-> "InvalidGeneratorList"]

OkGenerators(gs) == [tag |-> "Ok", generators |-> gs]

(***************************************************************************)
(* BinaryReader::read_u16: two bytes, little-endian; a reader that cannot  *)
(* give two bytes fails and is left at its end (read_exact).               *)
(***************************************************************************)
ReadU16(data, p) ==
    IF p + 2 <= Len(data)
    THEN [ok |-> TRUE, value |-> data[p + 1] + 256 * data[p + 2], pos |-> p + 2]
    ELSE [ok |-> FALSE, value |-> 0, pos |-> Len(data)]

(***************************************************************************)
(* Generator::new: the type, then the value; the second read is not        *)
(* issued when the first failed.                                           *)
(***************************************************************************)
GeneratorNew(data, p) ==
    LET t == ReadU16(data, p)
        v == ReadU16(data, t.pos)
    IN  IF ~t.ok THEN [ok |-> FALSE, gen |-> <<>>, pos |-> t.pos, reads |-> 1]
        ELSE IF ~v.ok THEN [ok |-> FALSE, gen |-> <<>>, pos |-> v.pos, reads |-> 2]
        ELSE [ok |-> TRUE,
              gen |-> [generator_type |-> t.value, value |-> v.value],
              pos |-> v.pos, reads |-> 2]

\* a slip: the size is checked against the width of one field, not of a record
SizeRejectedByField(n) == n % 2 # 0

\* `size % 4 != 0`
SizeRejected(n) == n % 4 # 0

\* a slip: the terminator is counted as a record
RecordCountWithTerminator(n) == (n \div 4) % UsizeModulus

\* `size / 4 - 1` in usize arithmetic, where the build wraps
RecordCount(n) == (n \div 4 - 1) % UsizeModulus

\* `size / 4 - 1` leaves usize
CountUnderflows(n) == n \div 4 - 1 < 0

IdleZone ==
    /\ generatorList = <<>>
    /\ bag = <<0, 0>>
    /\ entity = "none"
    /\ targetCount = 0
    /\ zoneIdx = 0
    /\ global = <<>>
    /\ regions = <<>>
    /\ regionZone = <<>>
    /\ pcZone = "idle"
    /\ resultZone = Pending

None == [tag |-> "None"]

IdleExp ==
    /\ sf = None
    /\ sfAtCall = None
    /\ bank = 0
    /\ patch = 0
    /\ exported = Pending
    /\ source = "none"
    /\ rebuilt = Pending
    /\ pcExp = "idle"

IdleNew ==
    /\ pcNew = "idle"
    /\ stagePc = "idle"
    /\ readLog = <<>>
    /\ chunk_id = ""
    /\ form_type = ""
    /\ info = None
    /\ sample_data = None
    /\ parameters = None
    /\ stages = <<>>
    /\ resultNew = Pending

IdleGen ==
    /\ chunk = <<>>
    /\ pos = 0
    /\ size = 0
    /\ count = 0
    /\ generators = <<>>
    /\ pcGen = "idle"
    /\ resultGen = Pending
    /\ readsGen = 0
    /\ overflowChecks = FALSE

InitGen ==
    /\ IdleZone
    /\ IdleNew
    /\ IdleExp
    /\ chunk \in UNION {[1..n -> ByteValues] : n \in 0..MaxChunkLen}
    /\ size \in 0..MaxSize
    /\ overflowChecks \in BOOLEAN
    /\ pos = 0
    /\ count = 0
    /\ generators = <<>>
    /\ pcGen = "check"
    /\ resultGen = Pending
    /\ readsGen = 0

\* generator.rs 29-31
RejectSize ==
    /\ pcGen = "check"
    /\ SizeRejected(size)
    /\ resultGen' = InvalidGeneratorList
    /\ pcGen' = "done"
    /\ UNCHANGED <<chunk, pos, size, count, generators, readsGen, overflowChecks>>
    /\ UNCHANGED nonGenVars

\* generator.rs 33, a build with overflow checks: the subtraction panics
CountPanics ==
    /\ pcGen = "check"
    /\ ~SizeRejected(size)
    /\ CountUnderflows(size)
    /\ overflowChecks
    /\ resultGen' = Panic
    /\ pcGen' = "done"
    /\ UNCHANGED <<chunk, pos, size, count, generators, readsGen, overflowChecks>>
    /\ UNCHANGED nonGenVars

\* generator.rs 33-35
ComputeCount ==
    /\ pcGen = "check"
    /\ ~SizeRejected(size)
    /\ CountUnderflows(size) => ~overflowChecks
    /\ count' = RecordCount(size)
    /\ generators' = <<>>
    /\ pcGen' = "loop"
    /\ UNCHANGED <<chunk, pos, size, resultGen, readsGen, overflowChecks>>
    /\ UNCHANGED nonGenVars

\* generator.rs 36-38, one turn of the loop
ReadRecord ==
    /\ pcGen = "loop"
    /\ Len(generators) < count
    /\ LET r == GeneratorNew(chunk, pos)
       IN  /\ pos' = r.pos
           /\ readsGen' = readsGen + r.reads
           /\ IF r.ok
              THEN /\ generators' = Append(generators, r.gen)
                   /\ UNCHANGED <<pcGen, resultGen>>
              ELSE /\ resultGen' = IoError
                   /\ pcGen' = "done"
                   /\ UNCHANGED generators
    /\ UNCHANGED <<chunk, size, count, overflowChecks>>
    /\ UNCHANGED nonGenVars

\* generator.rs 40-43, the terminator and the return
ReadTerminator ==
    /\ pcGen = "loop"
    /\ Len(generators) >= count
    /\ LET r == GeneratorNew(chunk, pos)
       IN  /\ pos' = r.pos
           /\ readsGen' = readsGen + r.reads
           /\ resultGen' = IF r.ok THEN OkGenerators(generators) ELSE IoError
    /\ pcGen' = "done"
    /\ UNCHANGED <<chunk, size, count, generators, overflowChecks>>
    /\ UNCHANGED nonGenVars

NextGen ==
    \/ RejectSize
    \/ CountPanics
    \/ ComputeCount
    \/ ReadRecord
    \/ ReadTerminator

SpecGen == InitGen /\ [][NextGen]_vars

\* the i-th 4-byte record of the chunk, as the two little-endian fields it holds
RecordAt(data, i) ==
    [generator_type |-> data[4 * (i - 1) + 1] + 256 * data[4 * (i - 1) + 2],
     value |-> data[4 * (i - 1) + 3] + 256 * data[4 * (i - 1) + 4]]

(***************************************************************************)
(* C6: a declared size that is not a multiple of 4 makes read_from_chunk   *)
(* return Err(InvalidGeneratorList); it never panics, and it issues no     *)
(* read: the reader stays where it was.                                    *)
(***************************************************************************)
C6_OddSizeRejectedWithoutRead ==
    (pcGen # "idle" /\ size % 4 # 0) =>
        /\ readsGen = 0
        /\ pos = 0
        /\ pcGen \in {"check", "done"}
        /\ pcGen = "done" => resultGen = InvalidGeneratorList

C6_Witness ==
    /\ pcGen = "done"
    /\ size % 4 # 0
    /\ size > 4
    /\ Len(chunk) >= size
    /\ resultGen = InvalidGeneratorList

(***************************************************************************)
(* C7: for a declared size that is a positive multiple of 4 and a reader   *)
(* holding at least size bytes, read_from_chunk returns size/4 - 1         *)
(* generators, the i-th being the i-th record of the chunk (type, then     *)
(* value); the last record is read and left out, and size bytes are        *)
(* consumed.                                                               *)
(***************************************************************************)
C7_RecordsInFileOrder ==
    (pcGen = "done" /\ size > 0 /\ size % 4 = 0 /\ Len(chunk) >= size) =>
        /\ resultGen.tag = "Ok"
        /\ Len(resultGen.generators) = size \div 4 - 1
        /\ \A i \in 1..Len(resultGen.generators) :
              resultGen.generators[i] = RecordAt(chunk, i)
        /\ pos = size
        /\ readsGen = 2 * (size \div 4)

C7_Witness ==
    /\ pcGen = "done"
    /\ size = 12
    /\ resultGen.tag = "Ok"
    /\ Len(resultGen.generators) = 2
    /\ resultGen.generators[1] # resultGen.generators[2]
    /\ resultGen.generators[1].generator_type # resultGen.generators[1].value
    /\ RecordAt(chunk, 3) # resultGen.generators[2]
    /\ pos = 12

(***************************************************************************)
(* Zone resolution of one preset: the default-cascading algorithm of the   *)
(* parameter block.                                                        *)
(***************************************************************************)
\* GeneratorType::COUNT, the length of a region's gs array
COUNT == 61

\* GeneratorType::INSTRUMENT, the linking generator of a preset zone
INSTRUMENT == 41

\* GeneratorType::PAN, one of the generators that link nothing
PAN == 17

\* GeneratorType::SAMPLE_ID, the linking generator of an instrument zone
SAMPLE_ID == 53

\* the position of the entity in its list
EntityId == 0

\* the linking generator of the zones of a preset, of an instrument
LinkType(e) == IF e = "preset" THEN INSTRUMENT ELSE SAMPLE_ID

\* a 16-bit generator value as the i16 a gs array holds
ToI16(v) == IF v >= 32768 THEN v - 65536 ELSE v

Gen(t, v) == [generator_type |-> t, value |-> v]

GeneratorChoices(e) == {Gen(LinkType(e), 0), Gen(LinkType(e), 1), Gen(PAN, 1), Gen(PAN, 65535)}

InvalidInstrumentId(p, i) == [tag |-> "InvalidInstrumentId", preset_id |-> p, instrument_id |-> i]

InvalidPreset(p) == [tag |-> "InvalidPreset", preset_id |-> p]

InvalidSampleId(i, sid) == [tag |-> "InvalidSampleId", instrument_id |-> i, sample_id |-> sid]

InvalidInstrument(i) == [tag |-> "InvalidInstrument", instrument_id |-> i]

OkRegions(rs) == [tag |-> "Ok", regions |-> rs]

\* the generators of zone z: the slice of the generator list between two
\* successive bag offsets
ZoneGenerators(list, b, z) == SubSeq(list, b[z] + 1, b[z + 1])

ZoneCount(b) == Len(b) - 1

\* the zone holds a generator of the linking kind
HasLink(e, zone) == \E i \in 1..Len(zone) : zone[i].generator_type = LinkType(e)

\* the first zone is the global zone
IsGlobalZone(e, zone) == ~HasLink(e, zone)

ZeroGs == [g \in 0..(COUNT - 1) |-> 0]

\* overlay the generators of a zone, in file order, on a gs array
RECURSIVE SetParameters(_, _)
SetParameters(gs, zone) ==
    IF zone = <<>> THEN gs
    ELSE SetParameters([gs EXCEPT ![Head(zone).generator_type] = ToI16(Head(zone).value)],
                       Tail(zone))

\* a slip: the defaults are applied after the zone's own generators
RegionGsDefaultsLast(defaults, zone) == SetParameters(SetParameters(ZeroGs, zone), defaults)

\* the gs array of a region: zeros, then the defaults, then the zone's own
RegionGs(defaults, zone) == SetParameters(SetParameters(ZeroGs, defaults), zone)

\* the instrument a gs array links to is out of range
LinkOutOfRange(e, gs, n) == gs[LinkType(e)] < 0 \/ gs[LinkType(e)] >= n

\* the error of an out-of-range link: the entity and the index
LinkError(e, gs) ==
    IF e = "preset" THEN InvalidInstrumentId(EntityId, gs[INSTRUMENT])
    ELSE InvalidSampleId(EntityId, gs[SAMPLE_ID])

\* the error of an entity left without a region
NoRegionError(e) == IF e = "preset" THEN InvalidPreset(EntityId) ELSE InvalidInstrument(EntityId)

PresetRegion(gs) == [gs |-> gs, instrument |-> gs[INSTRUMENT]]

SampleHeader(name, start, end) ==
    [name |-> name, start |-> start, end |-> end, start_loop |-> start, end_loop |-> end,
     sample_rate |-> 44100, original_pitch |-> 60, pitch_correction |-> 0,
     link |-> 0, sample_type |-> 1]

SampleHeaderChoices == <<SampleHeader("s0", 0, 1), SampleHeader("s1", 1, 2)>>

InstrumentRegion(gs, header) ==
    [gs |-> gs, sample_start |-> header.start, sample_end |-> header.end,
     sample_start_loop |-> header.start_loop, sample_end_loop |-> header.end_loop,
     sample_sample_rate |-> header.sample_rate,
     sample_original_pitch |-> header.original_pitch,
     sample_pitch_correction |-> header.pitch_correction]

\* the region a gs array with an in-range link makes
ZoneRegion(e, gs) ==
    IF e = "preset" THEN PresetRegion(gs)
    ELSE InstrumentRegion(gs, SampleHeaderChoices[gs[SAMPLE_ID] + 1])

BagTables(len) ==
    UNION {{b \in [1..(k + 1) -> 0..len] :
                /\ b[1] = 0
                /\ b[k + 1] = len
                /\ \A i \in 1..k : b[i] <= b[i + 1]} : k \in 1..MaxZones}

InitZone ==
    /\ IdleGen
    /\ IdleNew
    /\ IdleExp
    /\ entity \in {"preset", "instrument"}
    /\ generatorList \in UNION {[1..n -> GeneratorChoices(entity)] : n \in 0..MaxGenList}
    /\ bag \in BagTables(Len(generatorList))
    /\ targetCount = 1
    /\ zoneIdx = 1
    /\ global = <<>>
    /\ regions = <<>>
    /\ regionZone = <<>>
    /\ pcZone = "first"
    /\ resultZone = Pending

\* the first zone has no linking generator: it is the global zone
TakeGlobalZone ==
    /\ pcZone = "first"
    /\ IsGlobalZone(entity, ZoneGenerators(generatorList, bag, 1))
    /\ global' = ZoneGenerators(generatorList, bag, 1)
    /\ zoneIdx' = 2
    /\ pcZone' = "zones"
    /\ UNCHANGED <<entity, generatorList, bag, targetCount, regions, regionZone, resultZone>>
    /\ UNCHANGED nonZoneVars

\* the first zone links an instrument: there is no global zone
NoGlobalZone ==
    /\ pcZone = "first"
    /\ ~IsGlobalZone(entity, ZoneGenerators(generatorList, bag, 1))
    /\ global' = <<>>
    /\ zoneIdx' = 1
    /\ pcZone' = "zones"
    /\ UNCHANGED <<entity, generatorList, bag, targetCount, regions, regionZone, resultZone>>
    /\ UNCHANGED nonZoneVars

\* a later zone without a linking generator is skipped
SkipZone ==
    /\ pcZone = "zones"
    /\ zoneIdx <= ZoneCount(bag)
    /\ ~HasLink(entity, ZoneGenerators(generatorList, bag, zoneIdx))
    /\ zoneIdx' = zoneIdx + 1
    /\ UNCHANGED <<entity, generatorList, bag, targetCount, global, regions, regionZone, pcZone, resultZone>>
    /\ UNCHANGED nonZoneVars

\* a zone with an in-range link becomes a region
ResolveZone ==
    /\ pcZone = "zones"
    /\ zoneIdx <= ZoneCount(bag)
    /\ HasLink(entity, ZoneGenerators(generatorList, bag, zoneIdx))
    /\ LET gs == RegionGs(global, ZoneGenerators(generatorList, bag, zoneIdx))
       IN  /\ ~LinkOutOfRange(entity, gs, targetCount)
           /\ regions' = Append(regions, ZoneRegion(entity, gs))
    /\ regionZone' = Append(regionZone, zoneIdx)
    /\ zoneIdx' = zoneIdx + 1
    /\ UNCHANGED <<entity, generatorList, bag, targetCount, global, pcZone, resultZone>>
    /\ UNCHANGED nonZoneVars

\* a zone with an out-of-range link is a hard error
RejectZone ==
    /\ pcZone = "zones"
    /\ zoneIdx <= ZoneCount(bag)
    /\ HasLink(entity, ZoneGenerators(generatorList, bag, zoneIdx))
    /\ LET gs == RegionGs(global, ZoneGenerators(generatorList, bag, zoneIdx))
       IN  /\ LinkOutOfRange(entity, gs, targetCount)
           /\ resultZone' = LinkError(entity, gs)
    /\ pcZone' = "done"
    /\ UNCHANGED <<entity, generatorList, bag, targetCount, zoneIdx, global, regions, regionZone>>
    /\ UNCHANGED nonZoneVars

\* all zones seen: the preset holds its regions, or is rejected for having none
FinishZones ==
    /\ pcZone = "zones"
    /\ zoneIdx > ZoneCount(bag)
    /\ resultZone' = IF regions = <<>> THEN NoRegionError(entity) ELSE OkRegions(regions)
    /\ pcZone' = "done"
    /\ UNCHANGED <<entity, generatorList, bag, targetCount, zoneIdx, global, regions, regionZone>>
    /\ UNCHANGED nonZoneVars

NextZone ==
    \/ TakeGlobalZone
    \/ NoGlobalZone
    \/ SkipZone
    \/ ResolveZone
    \/ RejectZone
    \/ FinishZones

SpecZone == InitZone /\ [][NextZone]_vars

\* generator type g occurs in the zone
Occurs(zone, g) == \E i \in 1..Len(zone) : zone[i].generator_type = g

\* the value of the zone's last record for g, as an i16
LastValue(zone, g) ==
    LET i == CHOOSE i \in 1..Len(zone) :
                 /\ zone[i].generator_type = g
                 /\ \A j \in (i + 1)..Len(zone) : zone[j].generator_type # g
    IN  ToI16(zone[i].value)

(***************************************************************************)
(* C2: in an entity whose first zone is a global zone, every region comes  *)
(* from a later zone, and for every generator type g its gs[g] is the      *)
(* value of the zone's last record for g if g occurs in the zone,          *)
(* otherwise the global zone's value if g occurs there, otherwise 0.  The  *)
(* global zone makes no region, and no other zone supplies defaults.       *)
(***************************************************************************)
C2_GlobalZoneCascade ==
    (/\ pcZone \in {"zones", "done"}
     /\ entity = "preset" => ~Occurs(ZoneGenerators(generatorList, bag, 1), INSTRUMENT)
     /\ entity = "instrument" => ~Occurs(ZoneGenerators(generatorList, bag, 1), SAMPLE_ID)) =>
        /\ Len(regionZone) = Len(regions)
        /\ \A r \in 1..Len(regions) :
              LET first == ZoneGenerators(generatorList, bag, 1)
                  zone == ZoneGenerators(generatorList, bag, regionZone[r])
              IN  /\ regionZone[r] > 1
                  /\ \A g \in 0..(COUNT - 1) :
                        regions[r].gs[g] =
                            IF Occurs(zone, g) THEN LastValue(zone, g)
                            ELSE IF Occurs(first, g) THEN LastValue(first, g)
                            ELSE 0

C2_Witness ==
    /\ pcZone = "done"
    /\ resultZone.tag = "Ok"
    /\ Len(regions) = 2
    /\ Occurs(ZoneGenerators(generatorList, bag, 1), PAN)
    /\ entity = "instrument"
    /\ ~Occurs(ZoneGenerators(generatorList, bag, 1), SAMPLE_ID)
    /\ ~Occurs(ZoneGenerators(generatorList, bag, regionZone[1]), PAN)
    /\ Occurs(ZoneGenerators(generatorList, bag, regionZone[2]), PAN)
    /\ regions[1].gs[PAN] = LastValue(ZoneGenerators(generatorList, bag, 1), PAN)
    /\ regions[2].gs[PAN] # regions[1].gs[PAN]

(***************************************************************************)
(* The values of a bank: SoundFontInfo, SampleHeader, Instrument, Preset.  *)
(***************************************************************************)
\* most presets of one bank
MaxPresets == 2

SoundFontVersion(major, minor) == [major |-> major, minor |-> minor]

SoundFontInfo(name) ==
    [version |-> SoundFontVersion(2, 1), target_sound_engine |-> "EMU8000",
     bank_name |-> name, rom_name |-> "", rom_version |-> SoundFontVersion(0, 0),
     creation_date |-> "", author |-> "", target_product |-> "",
     copyright |-> "", comments |-> "", tools |-> ""]

Instrument(name, rs) == [name |-> name, regions |-> rs]

Preset(name, bk, pt, rs) ==
    [name |-> name, patch_number |-> pt, bank_number |-> bk,
     library |-> 0, genre |-> 0, morphology |-> 0, regions |-> rs]

GsOf(pan, link) == [ZeroGs EXCEPT ![PAN] = pan, ![INSTRUMENT] = link]

InstrumentChoices ==
    <<Instrument("i0", <<InstrumentRegion(ZeroGs, SampleHeaderChoices[1])>>),
      Instrument("i1", <<InstrumentRegion([ZeroGs EXCEPT ![PAN] = -1], SampleHeaderChoices[2])>>)>>

\* presets as the parameter block resolves them: every region links an
\* instrument of InstrumentChoices
PresetChoices ==
    {Preset("piano", 0, 0, <<PresetRegion(GsOf(0, 0))>>),
     Preset("organ", 0, 0, <<PresetRegion(GsOf(-1, 1)), PresetRegion(GsOf(1, 0))>>),
     Preset("bass", 0, 1, <<PresetRegion(GsOf(1, 1))>>),
     Preset("drums", 128, 0, <<PresetRegion(GsOf(0, 1))>>)}

ParameterBlocks ==
    {[presets |-> ps, instruments |-> InstrumentChoices, sample_headers |-> SampleHeaderChoices] :
        ps \in UNION {[1..n -> PresetChoices] : n \in 1..MaxPresets}}

WaveDataChoices == {<<0, 1, -1>>, <<-32768, 32767, 0>>}

(***************************************************************************)
(* SoundFont::new.  The reader is any `R: Read`: each read either gives a  *)
(* value or fails with an I/O error, and what it gives is chosen when the  *)
(* read is issued.                                                         *)
(***************************************************************************)
FourCCChoices == {"RIFF", "sfbk", "LIST", "INFO", "sdta", "pdta"}

SizeChoices == {0, 12}

ReadOk(site, v) == [site |-> site, ok |-> TRUE, value |-> v]

ReadFailed(site) == [site |-> site, ok |-> FALSE, value |-> "io error"]

RiffChunkNotFound == [tag |-> "RiffChunkNotFound"]

InvalidRiffChunkType(expected, actual) == [tag |-> "InvalidRiffChunkType", expected |-> expected, actual |-> actual]

ListChunkNotFound == [tag |-> "ListChunkNotFound"]

InvalidListChunkType(expected, actual) == [tag |-> "InvalidListChunkType", expected |-> expected, actual |-> actual]

ListContainsUnknownId(id) == [tag |-> "ListContainsUnknownId", id |-> id]

SampleDataNotFound == [tag |-> "SampleDataNotFound"]

UnsupportedSampleFormat == [tag |-> "UnsupportedSampleFormat"]

PresetNotFound == [tag |-> "PresetNotFound"]

Ok(v) == [tag |-> "Ok", value |-> v]

IsErr(r) == r.tag # "Ok"

\* `chunk_id != b"RIFF"`
RiffMismatch(tag) == tag # "RIFF"

\* a slip: the form type is compared with the container tag
FormTypeMismatchAgainstRiff(tag) == tag # "RIFF"

\* `form_type != b"sfbk"`
FormTypeMismatch(tag) == tag # "sfbk"

\* a slip: the fields of the error are filled the wrong way round
FormTypeErrorSwapped(tag) == InvalidRiffChunkType(tag, "sfbk")

\* the error of a wrong form type
FormTypeError(tag) == InvalidRiffChunkType("sfbk", tag)

\* a slip: the parameter block is decoded before the sample data
StageAfterSwapped(stage) ==
    CASE stage = "info" -> "parameters"
      [] stage = "parameters" -> "sample_data"
      [] stage = "sample_data" -> "build"

\* the order of the three sub-blocks, and the construction after the last
StageAfter(stage) ==
    CASE stage = "info" -> "sample_data"
      [] stage = "sample_data" -> "parameters"
      [] stage = "parameters" -> "build"

\* the `?` after each sub-block constructor
StagePropagates(r) == IsErr(r)

\* a slip: the bank is returned before its presets are moved in
SoundFontOfWithoutPresets(i, sd, p) ==
    [info |-> i, bits_per_sample |-> 16, wave_data |-> sd.wave_data,
     sample_headers |-> p.sample_headers, presets |-> <<>>,
     instruments |-> p.instruments]

\* the SoundFont that SoundFont::new builds
SoundFontOf(i, sd, p) ==
    [info |-> i, bits_per_sample |-> 16, wave_data |-> sd.wave_data,
     sample_headers |-> p.sample_headers, presets |-> p.presets,
     instruments |-> p.instruments]

Stages == {"info", "sample_data", "parameters"}

\* the list type each sub-block expects
ListType(stage) ==
    CASE stage = "info" -> "INFO"
      [] stage = "sample_data" -> "sdta"
      [] stage = "parameters" -> "pdta"

\* what the body of a sub-block may hold
BodyChoices(stage) ==
    CASE stage = "info" ->
            {[kind |-> "info", bank_name |-> "GM"], [kind |-> "unknown", id |-> "zzzz"]}
      [] stage = "sample_data" ->
            {[kind |-> "pcm16", wave_data |-> w] : w \in WaveDataChoices}
            \cup {[kind |-> "compressed"], [kind |-> "empty"]}
      [] stage = "parameters" ->
            {[kind |-> "parameters", block |-> b] : b \in ParameterBlocks}
            \cup {[kind |-> "error", error |-> e] :
                     e \in {InvalidInstrumentId(0, 2), PresetNotFound}}

\* the result of a sub-block whose reads all succeeded, from what its body holds
StageOutcome(stage, body) ==
    CASE stage = "info" ->
            IF body.kind = "unknown" THEN ListContainsUnknownId(body.id)
            ELSE Ok(SoundFontInfo(body.bank_name))
      [] stage = "sample_data" ->
            IF body.kind = "empty" THEN SampleDataNotFound
            ELSE IF body.kind = "compressed" THEN UnsupportedSampleFormat
            ELSE Ok([bits_per_sample |-> 16, wave_data |-> body.wave_data])
      [] stage = "parameters" ->
            IF body.kind = "error" THEN body.error ELSE Ok(body.block)

InitNew ==
    /\ IdleGen
    /\ IdleZone
    /\ IdleExp
    /\ pcNew = "chunk_id"
    /\ stagePc = "idle"
    /\ readLog = <<>>
    /\ chunk_id = ""
    /\ form_type = ""
    /\ info = None
    /\ sample_data = None
    /\ parameters = None
    /\ stages = <<>>
    /\ resultNew = Pending

\* soundfont.rs 34-37
ReadChunkId ==
    /\ pcNew = "chunk_id"
    /\ \E r \in {ReadOk(<<"riff", "chunk_id">>, t) : t \in FourCCChoices}
                \cup {ReadFailed(<<"riff", "chunk_id">>)} :
          /\ readLog' = Append(readLog, r)
          /\ IF ~r.ok
             THEN /\ resultNew' = IoError
                  /\ pcNew' = "done"
                  /\ UNCHANGED chunk_id
             ELSE IF RiffMismatch(r.value)
             THEN /\ resultNew' = RiffChunkNotFound
                  /\ pcNew' = "done"
                  /\ chunk_id' = r.value
             ELSE /\ chunk_id' = r.value
                  /\ pcNew' = "size"
                  /\ UNCHANGED resultNew
    /\ UNCHANGED <<stagePc, form_type, info, sample_data, parameters, stages>>
    /\ UNCHANGED nonNewVars

\* soundfont.rs 39: the Result of the read is bound to `_size` and dropped
ReadSize ==
    /\ pcNew = "size"
    /\ \E r \in {ReadOk(<<"riff", "size">>, n) : n \in SizeChoices}
                \cup {ReadFailed(<<"riff", "size">>)} :
          readLog' = Append(readLog, r)
    /\ pcNew' = "form_type"
    /\ UNCHANGED <<stagePc, chunk_id, form_type, info, sample_data, parameters, stages, resultNew>>
    /\ UNCHANGED nonNewVars

\* soundfont.rs 41-47, and the call of SoundFontInfo::new of line 49
ReadFormType ==
    /\ pcNew = "form_type"
    /\ \E r \in {ReadOk(<<"riff", "form_type">>, t) : t \in FourCCChoices}
                \cup {ReadFailed(<<"riff", "form_type">>)} :
          /\ readLog' = Append(readLog, r)
          /\ IF ~r.ok
             THEN /\ resultNew' = IoError
                  /\ pcNew' = "done"
                  /\ UNCHANGED <<form_type, stagePc, stages>>
             ELSE IF FormTypeMismatch(r.value)
             THEN /\ resultNew' = FormTypeError(r.value)
                  /\ pcNew' = "done"
                  /\ form_type' = r.value
                  /\ UNCHANGED <<stagePc, stages>>
             ELSE /\ form_type' = r.value
                  /\ pcNew' = "info"
                  /\ stagePc' = "list"
                  /\ stages' = Append(stages, "info")
                  /\ UNCHANGED resultNew
    /\ UNCHANGED <<chunk_id, info, sample_data, parameters>>
    /\ UNCHANGED nonNewVars

\* soundfont.rs 49-51: the sub-block at hand returned `out`; its value is
\* bound and the next sub-block is called, or its error is returned
StageReturns(out) ==
    /\ info' = IF pcNew = "info" THEN out ELSE info
    /\ sample_data' = IF pcNew = "sample_data" THEN out ELSE sample_data
    /\ parameters' = IF pcNew = "parameters" THEN out ELSE parameters
    /\ IF StagePropagates(out)
       THEN /\ resultNew' = out
            /\ pcNew' = "done"
            /\ UNCHANGED <<stagePc, stages>>
       ELSE /\ pcNew' = StageAfter(pcNew)
            /\ stagePc' = IF StageAfter(pcNew) \in Stages THEN "list" ELSE "idle"
            /\ stages' = IF StageAfter(pcNew) \in Stages
                         THEN Append(stages, StageAfter(pcNew)) ELSE stages
            /\ UNCHANGED resultNew

\* the sub-block at hand goes on to its next read
StageGoesOn(step) ==
    /\ stagePc' = step
    /\ UNCHANGED <<pcNew, resultNew, info, sample_data, parameters, stages>>

\* a sub-block reads its LIST tag
StageReadList ==
    /\ pcNew \in Stages
    /\ stagePc = "list"
    /\ \E r \in {ReadOk(<<pcNew, "list">>, t) : t \in FourCCChoices}
                \cup {ReadFailed(<<pcNew, "list">>)} :
          /\ readLog' = Append(readLog, r)
          /\ IF ~r.ok THEN StageReturns(IoError)
             ELSE IF r.value # "LIST" THEN StageReturns(ListChunkNotFound)
             ELSE StageGoesOn("size")
    /\ UNCHANGED <<chunk_id, form_type>>
    /\ UNCHANGED nonNewVars

\* a sub-block reads its declared size
StageReadSize ==
    /\ pcNew \in Stages
    /\ stagePc = "size"
    /\ \E r \in {ReadOk(<<pcNew, "size">>, n) : n \in SizeChoices}
                \cup {ReadFailed(<<pcNew, "size">>)} :
          /\ readLog' = Append(readLog, r)
          /\ IF ~r.ok THEN StageReturns(IoError)
             ELSE StageGoesOn("type")
    /\ UNCHANGED <<chunk_id, form_type>>
    /\ UNCHANGED nonNewVars

\* a sub-block reads its list type
StageReadType ==
    /\ pcNew \in Stages
    /\ stagePc = "type"
    /\ \E r \in {ReadOk(<<pcNew, "type">>, t) : t \in FourCCChoices}
                \cup {ReadFailed(<<pcNew, "type">>)} :
          /\ readLog' = Append(readLog, r)
          /\ IF ~r.ok THEN StageReturns(IoError)
             ELSE IF r.value # ListType(pcNew)
             THEN StageReturns(InvalidListChunkType(ListType(pcNew), r.value))
             ELSE StageGoesOn("body")
    /\ UNCHANGED <<chunk_id, form_type>>
    /\ UNCHANGED nonNewVars

\* a sub-block reads its body and returns
StageReadBody ==
    /\ pcNew \in Stages
    /\ stagePc = "body"
    /\ \E r \in {ReadOk(<<pcNew, "body">>, c) : c \in BodyChoices(pcNew)}
                \cup {ReadFailed(<<pcNew, "body">>)} :
          /\ readLog' = Append(readLog, r)
          /\ IF ~r.ok THEN StageReturns(IoError)
             ELSE StageReturns(StageOutcome(pcNew, r.value))
    /\ UNCHANGED <<chunk_id, form_type>>
    /\ UNCHANGED nonNewVars

\* soundfont.rs 53-60
ReturnSoundFont ==
    /\ pcNew = "build"
    /\ resultNew' = Ok(SoundFontOf(info.value, sample_data.value, parameters.value))
    /\ pcNew' = "done"
    /\ UNCHANGED <<stagePc, readLog, chunk_id, form_type, info, sample_data, parameters, stages>>
    /\ UNCHANGED nonNewVars

Next ==
    \/ ReadChunkId
    \/ ReadSize
    \/ ReadFormType
    \/ StageReadList
    \/ StageReadSize
    \/ StageReadType
    \/ StageReadBody
    \/ ReturnSoundFont

Init == InitNew

Spec == Init /\ [][Next]_vars

\* the reads of the log that were issued at `site`
ReadsAt(site) == {i \in 1..Len(readLog) : readLog[i].site = site}

\* the result of a sub-block that returned, None before
StageResult(stage) ==
    CASE stage = "info" -> info
      [] stage = "sample_data" -> sample_data
      [] stage = "parameters" -> parameters

(***************************************************************************)
(* C1: when the stream passes the RIFF and sfbk checks and the info block  *)
(* and its sample data is in an unsupported encoding, SoundFont::new       *)
(* returns Err(UnsupportedSampleFormat), the parameter block is never      *)
(* started, and no read follows the one the sample-data block failed on.   *)
(***************************************************************************)
C1_UnsupportedFormatStopsDecode ==
    \A i \in ReadsAt(<<"sample_data", "body">>) :
        (readLog[i].ok /\ readLog[i].value.kind = "compressed") =>
            /\ i = Len(readLog)
            /\ pcNew = "done"
            /\ resultNew = [tag |-> "UnsupportedSampleFormat"]
            /\ \A j \in 1..Len(stages) : stages[j] # "parameters"
            /\ parameters = None

C1_Witness ==
    /\ pcNew = "done"
    /\ chunk_id = "RIFF"
    /\ form_type = "sfbk"
    /\ info.tag = "Ok"
    /\ resultNew = [tag |-> "UnsupportedSampleFormat"]
    /\ readLog[Len(readLog)].site = <<"sample_data", "body">>
    /\ readLog[Len(readLog)].ok
    /\ readLog[Len(readLog)].value.kind = "compressed"
    /\ stages = <<"info", "sample_data">>

(***************************************************************************)
(* C4: when the first tag is RIFF and the form type read is a tag T other  *)
(* than sfbk, SoundFont::new fails with InvalidRiffChunkType, expected     *)
(* sfbk and actual T, and starts none of the three sub-blocks.             *)
(***************************************************************************)
C4_WrongFormTypeRejected ==
    \A i \in ReadsAt(<<"riff", "form_type">>) :
        (chunk_id = "RIFF" /\ readLog[i].ok /\ readLog[i].value # "sfbk") =>
            /\ pcNew = "done"
            /\ resultNew = [tag |-> "InvalidRiffChunkType", expected |-> "sfbk",
                            actual |-> readLog[i].value]
            /\ stages = <<>>
            /\ i = Len(readLog)
            /\ info = None /\ sample_data = None /\ parameters = None

C4_Witness ==
    /\ pcNew = "done"
    /\ chunk_id = "RIFF"
    /\ Len(readLog) = 3
    /\ readLog[2].ok
    /\ readLog[3] = [site |-> <<"riff", "form_type">>, ok |-> TRUE, value |-> "RIFF"]
    /\ resultNew.tag = "InvalidRiffChunkType"
    /\ resultNew.actual = "RIFF"

(***************************************************************************)
(* C5, as claimed: a read that fails with an I/O error is the last read    *)
(* SoundFont::new issues, and SoundFont::new returns the I/O error.        *)
(***************************************************************************)
C5_FailedReadEndsDecode ==
    \A i \in 1..Len(readLog) :
        ~readLog[i].ok =>
            /\ i = Len(readLog)
            /\ pcNew = "done"
            /\ resultNew = [tag |-> "IoError"]

(***************************************************************************)
(* C8: SoundFont::new returns a result exactly when it is done; an Ok      *)
(* result is the complete bank, built from the values of the info, the     *)
(* sample-data and the parameter block after the two tag checks and the    *)
(* three blocks succeeded in that order; a block is started only after the *)
(* one before it succeeded, and the failure of a block is the result, with *)
(* no block started after it.                                              *)
(***************************************************************************)
C8_CompleteBankOrError ==
    /\ (resultNew = Pending) <=> (pcNew # "done")
    /\ \E n \in 0..3 : stages = SubSeq(<<"info", "sample_data", "parameters">>, 1, n)
    /\ stages # <<>> => (chunk_id = "RIFF" /\ form_type = "sfbk")
    /\ \A s \in Stages :
          /\ StageResult(s) # None => \E j \in 1..Len(stages) : stages[j] = s
          /\ \A j \in 1..Len(stages) :
                (stages[j] = s /\ j < Len(stages)) => StageResult(s).tag = "Ok"
          /\ StageResult(s).tag \notin {"None", "Ok"} =>
                /\ pcNew = "done"
                /\ resultNew = StageResult(s)
                /\ stages[Len(stages)] = s
    /\ resultNew.tag = "Ok" =>
          /\ stages = <<"info", "sample_data", "parameters">>
          /\ \A s \in Stages : StageResult(s).tag = "Ok"
          /\ resultNew.value =
                [info |-> info.value, bits_per_sample |-> 16,
                 wave_data |-> sample_data.value.wave_data,
                 sample_headers |-> parameters.value.sample_headers,
                 presets |-> parameters.value.presets,
                 instruments |-> parameters.value.instruments]

C8_Witness ==
    /\ pcNew = "done"
    /\ resultNew.tag = "Ok"
    /\ Len(resultNew.value.presets) = 2
    /\ Len(readLog) = 15

(***************************************************************************)
(* C10, as claimed: a mismatch of the container tag or of the form type    *)
(* fails with an error that carries the expected and the actual tag.       *)
(***************************************************************************)
C10_BothTagChecksCarryTags ==
    /\ \A i \in ReadsAt(<<"riff", "chunk_id">>) :
          (readLog[i].ok /\ readLog[i].value # "RIFF") =>
              /\ pcNew = "done"
              /\ DOMAIN resultNew = {"tag", "expected", "actual"}
              /\ resultNew.expected = "RIFF"
              /\ resultNew.actual = readLog[i].value
    /\ \A i \in ReadsAt(<<"riff", "form_type">>) :
          (readLog[i].ok /\ readLog[i].value # "sfbk") =>
              /\ pcNew = "done"
              /\ DOMAIN resultNew = {"tag", "expected", "actual"}
              /\ resultNew.expected = "sfbk"
              /\ resultNew.actual = readLog[i].value

(***************************************************************************)
(* C10, amended: a mismatch of the form type fails with                    *)
(* InvalidRiffChunkType, which carries the expected tag sfbk and the       *)
(* actual tag; a mismatch of the container tag fails with                  *)
(* RiffChunkNotFound, which carries no tag.                                *)
(***************************************************************************)
C10_TagCheckErrors ==
    /\ \A i \in ReadsAt(<<"riff", "chunk_id">>) :
          (readLog[i].ok /\ readLog[i].value # "RIFF") =>
              /\ pcNew = "done"
              /\ resultNew = [tag |-> "RiffChunkNotFound"]
    /\ \A i \in ReadsAt(<<"riff", "form_type">>) :
          (readLog[i].ok /\ readLog[i].value # "sfbk") =>
              /\ pcNew = "done"
              /\ DOMAIN resultNew = {"tag", "expected", "actual"}
              /\ resultNew.tag = "InvalidRiffChunkType"
              /\ resultNew.expected = "sfbk"
              /\ resultNew.actual = readLog[i].value

C10_Witness ==
    /\ pcNew = "done"
    /\ Len(readLog) = 1
    /\ readLog[1].ok
    /\ readLog[1].value = "sfbk"
    /\ resultNew = [tag |-> "RiffChunkNotFound"]

(***************************************************************************)
(* SoundFont::export_preset and SoundFont::from_exported_preset.           *)
(***************************************************************************)
BankChoices == {0, 1, 128}

PatchChoices == {0, 1}

NoneOption == [tag |-> "None"]

Some(v) == [tag |-> "Some", value |-> v]

\* a slip: the last preset of the bank and patch is taken
FindLastPreset(presets, b, p) ==
    IF \E i \in 1..Len(presets) : presets[i].bank_number = b /\ presets[i].patch_number = p
    THEN CHOOSE i \in 1..Len(presets) :
            /\ presets[i].bank_number = b /\ presets[i].patch_number = p
            /\ \A j \in (i + 1)..Len(presets) :
                  ~(presets[j].bank_number = b /\ presets[j].patch_number = p)
    ELSE 0

\* `.iter().find(|p| p.bank_number == bank && p.patch_number == patch)`:
\* the index of the first preset of the bank and patch, 0 when there is none
FindPreset(presets, b, p) ==
    IF \E i \in 1..Len(presets) : presets[i].bank_number = b /\ presets[i].patch_number = p
    THEN CHOOSE i \in 1..Len(presets) :
            /\ presets[i].bank_number = b /\ presets[i].patch_number = p
            /\ \A j \in 1..(i - 1) :
                  ~(presets[j].bank_number = b /\ presets[j].patch_number = p)
    ELSE 0

\* `r.gs.into_iter().collect()`: the gs array as a Vec
GsToVec(gs) == [i \in 1..COUNT |-> gs[i - 1]]

\* `gs[i] = *v` for every element of the Vec, over an array of zeros; an
\* element past the end of the array is an index out of bounds
GsFromVecPanics(v) == Len(v) > COUNT

GsFromVec(v) == [g \in 0..(COUNT - 1) |-> IF g + 1 <= Len(v) THEN v[g + 1] ELSE 0]

ExportInfo(i) ==
    [version |-> SoundFontVersion(i.version.major, i.version.minor),
     target_sound_engine |-> i.target_sound_engine, bank_name |-> i.bank_name,
     rom_name |-> i.rom_name,
     rom_version |-> SoundFontVersion(i.rom_version.major, i.rom_version.minor),
     creation_date |-> i.creation_date, author |-> i.author,
     target_product |-> i.target_product, copyright |-> i.copyright,
     comments |-> i.comments, tools |-> i.tools]

ExportPresetRegion(r) == [gs |-> GsToVec(r.gs), instrument |-> r.instrument]

ExportInstrumentRegion(r) ==
    [gs |-> GsToVec(r.gs), sample_start |-> r.sample_start, sample_end |-> r.sample_end,
     sample_start_loop |-> r.sample_start_loop, sample_end_loop |-> r.sample_end_loop,
     sample_sample_rate |-> r.sample_sample_rate,
     sample_original_pitch |-> r.sample_original_pitch,
     sample_pitch_correction |-> r.sample_pitch_correction]

ExportInstrument(i) == [name |-> i.name, regions |-> [ix \in 1..Len(i.regions) |-> ExportInstrumentRegion(i.regions[ix])]]

ExportSampleHeader(h) ==
    [name |-> h.name, start |-> h.start, end |-> h.end, start_loop |-> h.start_loop,
     end_loop |-> h.end_loop, sample_rate |-> h.sample_rate,
     original_pitch |-> h.original_pitch, pitch_correction |-> h.pitch_correction,
     link |-> h.link, sample_type |-> h.sample_type]

\* the ExportedPreset built for one preset of the bank
ExportedPresetOf(b, preset) ==
    [info |-> ExportInfo(b.info),
     bits_per_sample |-> b.bits_per_sample,
     wave_data |-> b.wave_data,
     preset |-> [name |-> preset.name, patch_number |-> preset.patch_number,
                 bank_number |-> preset.bank_number, library |-> preset.library,
                 genre |-> preset.genre, morphology |-> preset.morphology,
                 regions |-> [ix \in 1..Len(preset.regions) |-> ExportPresetRegion(preset.regions[ix])]],
     instruments |-> [ix \in 1..Len(b.instruments) |-> ExportInstrument(b.instruments[ix])],
     regions |-> [ix \in 1..Len(preset.regions) |-> ExportPresetRegion(preset.regions[ix])],
     sample_headers |-> [ix \in 1..Len(b.sample_headers) |-> ExportSampleHeader(b.sample_headers[ix])]]

\* SoundFont::export_preset
ExportPreset(b, bk, pt) ==
    IF FindPreset(b.presets, bk, pt) = 0 THEN NoneOption
    ELSE Some(ExportedPresetOf(b, b.presets[FindPreset(b.presets, bk, pt)]))

ImportPresetRegion(r) == [gs |-> GsFromVec(r.gs), instrument |-> r.instrument]

ImportInstrumentRegion(r) ==
    [gs |-> GsFromVec(r.gs), sample_start |-> r.sample_start, sample_end |-> r.sample_end,
     sample_start_loop |-> r.sample_start_loop, sample_end_loop |-> r.sample_end_loop,
     sample_sample_rate |-> r.sample_sample_rate,
     sample_original_pitch |-> r.sample_original_pitch,
     sample_pitch_correction |-> r.sample_pitch_correction]

ImportInstrument(i) == [name |-> i.name, regions |-> [ix \in 1..Len(i.regions) |-> ImportInstrumentRegion(i.regions[ix])]]

\* the info and the sample headers are copied back field by field, the same
\* fields as on the way out
ImportInfo(i) == ExportInfo(i)

ImportSampleHeader(h) == ExportSampleHeader(h)

\* a gs Vec of the ExportedPreset is longer than a gs array
ImportPanics(e) ==
    \/ \E r \in 1..Len(e.regions) : GsFromVecPanics(e.regions[r].gs)
    \/ \E i \in 1..Len(e.instruments) : \E r \in 1..Len(e.instruments[i].regions) :
          GsFromVecPanics(e.instruments[i].regions[r].gs)

\* SoundFont::from_exported_preset
FromExportedPreset(e) ==
    IF ImportPanics(e) THEN Panic
    ELSE Ok([info |-> ImportInfo(e.info),
             bits_per_sample |-> e.bits_per_sample,
             wave_data |-> e.wave_data,
             presets |-> <<[name |-> e.preset.name,
                            patch_number |-> e.preset.patch_number,
                            bank_number |-> e.preset.bank_number,
                            library |-> e.preset.library, genre |-> e.preset.genre,
                            morphology |-> e.preset.morphology,
                            regions |-> [ix \in 1..Len(e.regions) |-> ImportPresetRegion(e.regions[ix])]]>>,
             instruments |-> [ix \in 1..Len(e.instruments) |-> ImportInstrument(e.instruments[ix])],
             sample_headers |-> [ix \in 1..Len(e.sample_headers) |-> ImportSampleHeader(e.sample_headers[ix])]])

\* the banks SoundFont::new returns
DecodedBanks ==
    {SoundFontOf(SoundFontInfo("GM"), [wave_data |-> w], p) :
        w \in WaveDataChoices, p \in ParameterBlocks}

\* ExportedPreset has public fields and is deserializable: values a caller
\* builds or reads back, here an export of the bank with one field changed
CallerBuiltExports(b) ==
    LET e == ExportedPresetOf(b, b.presets[1])
    IN  {[e EXCEPT !.instruments = <<>>],
         [e EXCEPT !.regions = <<[gs |-> <<>>, instrument |-> 7]>>],
         [e EXCEPT !.regions = <<[gs |-> <<5, 6>>, instrument |-> 0]>>],
         [e EXCEPT !.regions = <<[gs |-> [i \in 1..(COUNT + 1) |-> 0], instrument |-> 0]>>],
         [e EXCEPT !.bits_per_sample = 24]}

InitExp ==
    /\ IdleGen
    /\ IdleZone
    /\ IdleNew
    /\ sf \in DecodedBanks
    /\ sfAtCall = None
    /\ bank = 0
    /\ patch = 0
    /\ exported = Pending
    /\ source = "none"
    /\ rebuilt = Pending
    /\ pcExp = "start"

\* a call of export_preset, soundfont.rs 118-208
CallExportPreset ==
    /\ pcExp = "start"
    /\ \E b \in BankChoices, p \in PatchChoices :
          /\ bank' = b
          /\ patch' = p
          /\ exported' = ExportPreset(sf, b, p)
    /\ sfAtCall' = sf
    /\ source' = "export_preset"
    /\ pcExp' = "exported"
    /\ UNCHANGED <<sf, rebuilt>>
    /\ UNCHANGED nonExpVars

\* a call of from_exported_preset on what export_preset returned,
\* soundfont.rs 210-299
ImportExported ==
    /\ pcExp = "exported"
    /\ exported.tag = "Some"
    /\ rebuilt' = FromExportedPreset(exported.value)
    /\ pcExp' = "imported"
    /\ UNCHANGED <<sf, sfAtCall, bank, patch, exported, source>>
    /\ UNCHANGED nonExpVars

\* a call of from_exported_preset on an ExportedPreset the caller built
ImportCallerBuilt ==
    /\ pcExp = "start"
    /\ \E e \in CallerBuiltExports(sf) :
          /\ exported' = Some(e)
          /\ rebuilt' = FromExportedPreset(e)
    /\ source' = "caller"
    /\ pcExp' = "imported"
    /\ UNCHANGED <<sf, sfAtCall, bank, patch>>
    /\ UNCHANGED nonExpVars

NextExp ==
    \/ CallExportPreset
    \/ ImportExported
    \/ ImportCallerBuilt

SpecExport == InitExp /\ [][NextExp]_vars

\* every region of every preset of the bank links an instrument of the bank
RegionsInBounds(b) ==
    \A p \in 1..Len(b.presets) : \A r \in 1..Len(b.presets[p].regions) :
        /\ b.presets[p].regions[r].instrument >= 0
        /\ b.presets[p].regions[r].instrument < Len(b.instruments)

(***************************************************************************)
(* C3, as claimed: in every SoundFont returned by SoundFont::new or by     *)
(* SoundFont::from_exported_preset, every PresetRegion has                 *)
(* instrument < instruments.len().                                         *)
(***************************************************************************)
C3_RegionsLinkInstruments ==
    /\ resultNew.tag = "Ok" => RegionsInBounds(resultNew.value)
    /\ sf # None => RegionsInBounds(sf)
    /\ rebuilt.tag = "Ok" => RegionsInBounds(rebuilt.value)

\* the first preset of the bank and patch
IsFirstPreset(presets, i, b, p) ==
    /\ i \in 1..Len(presets)
    /\ presets[i].bank_number = b
    /\ presets[i].patch_number = p
    /\ \A j \in 1..(i - 1) : presets[j].bank_number # b \/ presets[j].patch_number # p

(***************************************************************************)
(* C9: export_preset leaves the bank as it was and returns None exactly    *)
(* when no preset has the bank and patch; from_exported_preset of what it  *)
(* returned is a bank whose only preset is the first preset of the bank    *)
(* and patch (name, numbers, every region's gs array and instrument), and  *)
(* whose instruments, sample headers, wave data and bits_per_sample are    *)
(* those of the bank.                                                      *)
(***************************************************************************)
C9_ExportImportRoundTrip ==
    (pcExp \in {"exported", "imported"} /\ source = "export_preset") =>
        /\ sf = sfAtCall
        /\ (exported.tag = "None") <=>
              ~\E i \in 1..Len(sf.presets) :
                    sf.presets[i].bank_number = bank /\ sf.presets[i].patch_number = patch
        /\ pcExp = "imported" =>
              /\ rebuilt.tag = "Ok"
              /\ Len(rebuilt.value.presets) = 1
              /\ \E i \in 1..Len(sf.presets) :
                    /\ IsFirstPreset(sf.presets, i, bank, patch)
                    /\ rebuilt.value.presets[1] = sf.presets[i]
              /\ rebuilt.value.instruments = sf.instruments
              /\ rebuilt.value.sample_headers = sf.sample_headers
              /\ rebuilt.value.wave_data = sf.wave_data
              /\ rebuilt.value.bits_per_sample = sf.bits_per_sample

C9_Witness ==
    /\ pcExp = "imported"
    /\ source = "export_preset"
    /\ rebuilt.tag = "Ok"
    /\ Len(sf.presets) = 2
    /\ sf.presets[1].bank_number = bank /\ sf.presets[1].patch_number = patch
    /\ sf.presets[2].bank_number = bank /\ sf.presets[2].patch_number = patch
    /\ sf.presets[1] # sf.presets[2]
    /\ Len(sf.presets[1].regions) = 2
    /\ rebuilt.value.presets = <<sf.presets[1]>>

(***************************************************************************)
(* C11, as claimed: bits_per_sample is 16 in every SoundFont reachable     *)
(* through the public interface, that is in every bank SoundFont::new      *)
(* returns and in every bank SoundFont::from_exported_preset returns.      *)
(***************************************************************************)
C11_BitsPerSampleIs16 ==
    /\ resultNew.tag = "Ok" => resultNew.value.bits_per_sample = 16
    /\ sf # None => sf.bits_per_sample = 16
    /\ rebuilt.tag = "Ok" => rebuilt.value.bits_per_sample = 16

\* what does hold of from_exported_preset: the rebuilt bank has the
\* bits_per_sample of the ExportedPreset it was given, so 16 when that is
\* what export_preset returned for a bank of SoundFont::new
C11_ImportCopiesBitsPerSample ==
    rebuilt.tag = "Ok" =>
        /\ rebuilt.value.bits_per_sample = exported.value.bits_per_sample
        /\ source = "export_preset" => rebuilt.value.bits_per_sample = 16

(***************************************************************************)
(* C12, as claimed: for every declared size the multiple-of-4 check lets   *)
(* through, size 0 included, the count size/4 - 1 of read_from_chunk does  *)
(* not underflow, so the call never panics and never asks the reader for   *)
(* more than size bytes (each read of a field asks for 2 bytes).           *)
(***************************************************************************)
C12_CountNeverUnderflows ==
    (pcGen # "idle" /\ ~SizeRejected(size)) =>
        /\ resultGen # Panic
        /\ pcGen \in {"loop", "done"} => count = size \div 4 - 1
        /\ 2 * readsGen <= size

\* what does hold of read_from_chunk: the same, for the declared sizes that
\* are positive multiples of 4
C12_PositiveSizesDoNotUnderflow ==
    (pcGen # "idle" /\ ~SizeRejected(size) /\ size > 0) =>
        /\ resultGen # Panic
        /\ pcGen \in {"loop", "done"} => count = size \div 4 - 1
        /\ 2 * readsGen <= size

====
